---- MODULE Spec2Model ----
(* A model of the two scripts of the repository:                           *)
(*   src/pdf_to_md.py          the batch PDF -> .md converter               *)
(*   src/create-test-image.py  the test image generator                     *)
(* A file name is a sequence of one-character strings, a file's content a   *)
(* sequence of numbers (bytes, or the code points of a PDF's text stream).  *)
EXTENDS Naturals, Sequences, FiniteSets

(***************************************************************************)
(* Bounds of the model.                                                    *)
(***************************************************************************)
\* the largest number of entries "doc" holds before the first run
MaxEntries == 2

(***************************************************************************)
(* Strings.                                                                *)
(***************************************************************************)
Str_pdf == <<".", "p", "d", "f">>
Str_PDF == <<".", "P", "D", "F">>
Str_md == <<".", "m", "d">>
Str_a == <<"a">>

\* pdf_dir = "doc"
pdf_dir == <<"d", "o", "c">>

\* the path the image is saved to
image_path == <<"t", "e", "s", "t", "-", "i", "m", "a", "g", "e", ".", "j", "p", "g">>

\* the message of the final print
Message == "Test image created successfully"

\* str.endswith
EndsWith(s, suffix) ==
    /\ Len(s) >= Len(suffix)
    /\ SubSeq(s, Len(s) - Len(suffix) + 1, Len(s)) = suffix

\* str.rfind of one character, 1-based; 0 when the character does not occur
RFind(s, c) ==
    LET hits == {i \in 1..Len(s) : s[i] = c}
    IN  IF hits = {} THEN 0 ELSE CHOOSE i \in hits : \A j \in hits : j <= i

\* os.path.splitext of a name: the split is at the last dot, unless only dots
\* precede it (leading dots belong to the root), and then the extension is empty
splitext(p) ==
    LET sepIndex == RFind(p, "/")
        dotIndex == RFind(p, ".")
    IN  IF /\ dotIndex > sepIndex
           /\ \E i \in (sepIndex + 1)..(dotIndex - 1) : p[i] # "."
        THEN <<SubSeq(p, 1, dotIndex - 1), SubSeq(p, dotIndex, Len(p))>>
        ELSE <<p, <<>>>>

\* os.path.join of a directory and a relative name
join(dir, name) == dir \o <<"/">> \o name

\* the directory part and the last component of a path
DirName(path) == SubSeq(path, 1, RFind(path, "/") - 1)
BaseName(path) == SubSeq(path, RFind(path, "/") + 1, Len(path))

\* str.lower on the letters the names use
Lower(s) ==
    [i \in 1..Len(s) |->
        CASE s[i] = "P" -> "p" [] s[i] = "D" -> "d" [] s[i] = "F" -> "f"
          [] OTHER -> s[i]]

\* a filter that ignores case: filename.lower().endswith(".pdf")
QualifiesIgnoreCase(filename) == EndsWith(Lower(filename), Str_pdf)

\* line 12: the filter of the loop
Qualifies(filename) == EndsWith(filename, Str_pdf)

\* a destination whose extension was not changed
md_filename_unchanged(filename) == filename

\* line 14: md_filename
md_filename(filename) == splitext(filename)[1] \o Str_md

\* line 13 and line 15: pdf_path and md_path
PdfPath(filename) == join(pdf_dir, filename)
MdPath(filename) == join(pdf_dir, md_filename(filename))

(***************************************************************************)
(* Text and bytes.                                                         *)
(***************************************************************************)
\* whether the utf-8 codec encodes a code point: a lone surrogate is refused
Encodable(cp) == ~(cp >= 55296 /\ cp <= 57343)

\* the utf-8 encoding of one code point
Utf8OfCodePoint(cp) ==
    IF cp < 128 THEN <<cp>>
    ELSE IF cp < 2048 THEN <<192 + (cp \div 64), 128 + (cp % 64)>>
    ELSE IF cp < 65536
         THEN <<224 + (cp \div 4096), 128 + ((cp \div 64) % 64), 128 + (cp % 64)>>
    ELSE <<240 + (cp \div 262144), 128 + ((cp \div 4096) % 64),
           128 + ((cp \div 64) % 64), 128 + (cp % 64)>>

RECURSIVE Utf8Encode(_)
\* what f.write(text) puts into a file opened with encoding="utf-8"
Utf8Encode(text) ==
    IF text = <<>> THEN <<>>
    ELSE Utf8OfCodePoint(Head(text)) \o Utf8Encode(Tail(text))

CanEncode(text) == \A i \in 1..Len(text) : Encodable(text[i])

(***************************************************************************)
(* The file system: "doc" maps each entry's name to the entry.  An entry   *)
(* is a subdirectory, a well-formed PDF (data: the code points of its text *)
(* stream) or any other file (data: its bytes).                            *)
(***************************************************************************)
Dir == [kind |-> "dir", data |-> <<>>]
Pdf(text) == [kind |-> "pdf", data |-> text]
Raw(bytes) == [kind |-> "raw", data |-> bytes]

\* the texts of the PDFs: "H" e-acute, "B", and one the utf-8 codec refuses
Texts == {<<72, 233>>, <<66>>, <<55296>>}

\* the entries "doc" may hold before the first run
Entries == {Dir, Raw(<<111, 108, 100>>)} \cup {Pdf(t) : t \in Texts}

\* the names "doc" may hold before the first run
Names ==
    { Str_a \o Str_pdf, Str_pdf, Str_pdf \o Str_pdf,
      Str_a \o Str_PDF, Str_a \o Str_md, Str_pdf \o Str_md }

\* the directories "doc" may be before the first run
Docs ==
    UNION { [S -> Entries] : S \in {T \in SUBSET Names : Cardinality(T) <= MaxEntries} }

\* extract_text(pdf_path): defined on a well-formed PDF only
CanExtract(d, path) ==
    /\ DirName(path) = pdf_dir
    /\ BaseName(path) \in DOMAIN d
    /\ d[BaseName(path)].kind = "pdf"
extract_text(d, path) == d[BaseName(path)].data

\* open(md_path, "w"): refused when the path names a directory
CanOpenW(d, path) ==
    /\ DirName(path) = pdf_dir
    /\ BaseName(path) \in DOMAIN d => d[BaseName(path)].kind # "dir"

\* the directory with the file at path holding bytes (created or replaced)
PutFile(d, path, bytes) ==
    [n \in DOMAIN d \cup {BaseName(path)} |->
        IF n = BaseName(path) THEN Raw(bytes) ELSE d[n]]

\* the directory after open(md_path, "w"): the file exists and is empty
OpenW(d, path) == PutFile(d, path, <<>>)

\* the directory after f.write(text) and the close of the with block
WriteText(d, path, text) == PutFile(d, path, Utf8Encode(text))

\* the orders os.listdir may return the entries in
Listings(d) ==
    {s \in [1..Cardinality(DOMAIN d) -> DOMAIN d] :
        \A i, j \in 1..Cardinality(DOMAIN d) : i # j => s[i] # s[j]}

VARIABLES
    script,     \* the script that is run: the two scripts share no state
    pc,         \* the position of the process
    doc,        \* the directory "doc"
    listing,    \* the entries os.listdir returned that the loop has not taken yet
    filename,   \* the loop variable
    md_path,    \* line 15
    text,       \* line 5
    img,        \* the canvas, <<>> before Image.new
    imgfile,    \* the file test-image.jpg, <<>> when absent
    stdout,     \* what the process has printed
    doc0,       \* history: "doc" when the current process started
    order,      \* history: what os.listdir returned to the current process
    calls,      \* history: the filenames passed to pdf_to_markdown, in order
    opened,     \* history: the paths the current process opened for writing
    prevDoc     \* history: {"doc" after the last converter run, if it exited 0}

vars == <<script, pc, doc, listing, filename, md_path, text, img, imgfile,
          stdout, doc0, order, calls, opened, prevDoc>>

convVars == <<doc, listing, filename, md_path, text, order, calls, opened>>
imgVars == <<img, imgfile, stdout>>

Init ==
    /\ \/ script = "pdf_to_md" /\ doc \in Docs
       \/ script = "create-test-image" /\ doc = <<>>
    /\ pc = "none"
    /\ listing = <<>>
    /\ filename = <<>>
    /\ md_path = <<>>
    /\ text = <<>>
    /\ img = <<>>
    /\ imgfile = <<>>
    /\ stdout = <<>>
    /\ doc0 = doc
    /\ order = <<>>
    /\ calls = <<>>
    /\ opened = {}
    /\ prevDoc = {}

\* the process has ended: normally ("exit") or by an unhandled error ("error")
Ended == pc \in {"exit", "error"}

\* a new process starts: python <script>
Invoke ==
    /\ pc = "none" \/ Ended
    /\ pc' = IF script = "pdf_to_md" THEN "listdir" ELSE "new"
    /\ listing' = <<>>
    /\ filename' = <<>>
    /\ md_path' = <<>>
    /\ text' = <<>>
    /\ img' = <<>>
    /\ stdout' = <<>>
    /\ doc0' = doc
    /\ order' = <<>>
    /\ calls' = <<>>
    /\ opened' = {}
    /\ prevDoc' = IF script = "pdf_to_md" /\ pc = "exit" THEN {doc} ELSE {}
    /\ UNCHANGED <<script, doc, imgfile>>

(***************************************************************************)
(* src/pdf_to_md.py                                                        *)
(***************************************************************************)
\* line 11: os.listdir(pdf_dir), in any order
ListDir ==
    /\ script = "pdf_to_md"
    /\ pc = "listdir"
    /\ \E s \in Listings(doc) :
        /\ listing' = s
        /\ order' = s
    /\ pc' = "for"
    /\ UNCHANGED <<script, doc, filename, md_path, text, calls, opened,
                   doc0, prevDoc>>
    /\ UNCHANGED imgVars

\* where the loop goes with the entry it has taken: into pdf_to_markdown when
\* the name passes the filter of line 12, to the next entry otherwise
AfterFilter(name) == IF Qualifies(name) THEN "extract" ELSE "for"

\* lines 11-16: the loop takes the next entry, or ends and the script exits 0
ForNext ==
    /\ script = "pdf_to_md"
    /\ pc = "for"
    /\ IF listing = <<>>
       THEN /\ pc' = "exit"
            /\ UNCHANGED <<listing, filename, md_path, calls>>
       ELSE /\ filename' = Head(listing)
            /\ listing' = Tail(listing)
            /\ pc' = AfterFilter(Head(listing))
            /\ IF AfterFilter(Head(listing)) = "extract"
               THEN /\ md_path' = MdPath(Head(listing))
                    /\ calls' = Append(calls, Head(listing))
               ELSE UNCHANGED <<md_path, calls>>
    /\ UNCHANGED <<script, doc, text, order, opened, doc0, prevDoc>>
    /\ UNCHANGED imgVars

\* a loop that catches the error of an entry and goes on with the next
OnErrorContinue == "for"

\* where the script goes when a call raises: nothing catches it
OnError == "error"

\* pdf_to_markdown with the destination opened before the extraction
ExtractInsideWith ==
    /\ script = "pdf_to_md"
    /\ pc = "extract"
    /\ doc' = IF CanOpenW(doc, md_path) THEN OpenW(doc, md_path) ELSE doc
    /\ IF CanExtract(doc, PdfPath(filename))
       THEN /\ text' = extract_text(doc, PdfPath(filename))
            /\ pc' = "open"
       ELSE /\ pc' = OnError
            /\ UNCHANGED text
    /\ UNCHANGED <<script, listing, filename, md_path, order, calls,
                   opened, doc0, prevDoc>>
    /\ UNCHANGED imgVars

\* line 5: text = extract_text(pdf_path)
Extract ==
    /\ script = "pdf_to_md"
    /\ pc = "extract"
    /\ IF CanExtract(doc, PdfPath(filename))
       THEN /\ text' = extract_text(doc, PdfPath(filename))
            /\ pc' = "open"
       ELSE /\ pc' = OnError
            /\ UNCHANGED text
    /\ UNCHANGED <<script, doc, listing, filename, md_path, order, calls,
                   opened, doc0, prevDoc>>
    /\ UNCHANGED imgVars

\* line 6: open(md_path, "w", encoding="utf-8")
Open ==
    /\ script = "pdf_to_md"
    /\ pc = "open"
    /\ IF CanOpenW(doc, md_path)
       THEN /\ doc' = OpenW(doc, md_path)
            /\ opened' = opened \cup {md_path}
            /\ pc' = "write"
       ELSE /\ pc' = OnError
            /\ UNCHANGED <<doc, opened>>
    /\ UNCHANGED <<script, listing, filename, md_path, text, order, calls,
                   doc0, prevDoc>>
    /\ UNCHANGED imgVars

\* line 7: f.write(text), and the close of the file
Write ==
    /\ script = "pdf_to_md"
    /\ pc = "write"
    /\ IF CanEncode(text)
       THEN /\ doc' = WriteText(doc, md_path, text)
            /\ pc' = "for"
       ELSE /\ pc' = OnError
            /\ UNCHANGED doc
    /\ UNCHANGED <<script, listing, filename, md_path, text, order, calls,
                   opened, doc0, prevDoc>>
    /\ UNCHANGED imgVars

(***************************************************************************)
(* src/create-test-image.py                                                *)
(***************************************************************************)
Width == 300
Height == 200
TextX == 50
TextY == 90

\* line 4: Image.new('RGB', (300, 200), color='lightblue')
ImageNew ==
    /\ script = "create-test-image"
    /\ pc = "new"
    /\ \/ /\ img' = [mode |-> "RGB", size |-> <<Width, Height>>,
                     color |-> "lightblue", drawn |-> <<>>]
          /\ pc' = "draw"
       \/ /\ pc' = "error"
          /\ UNCHANGED img
    /\ UNCHANGED <<script, imgfile, stdout, doc0, prevDoc>>
    /\ UNCHANGED convVars

\* lines 5-6: ImageDraw.Draw(img).text((50, 90), "Test Image", fill='black')
DrawText ==
    /\ script = "create-test-image"
    /\ pc = "draw"
    /\ \/ /\ img' = [img EXCEPT !.drawn =
                        Append(@, [at |-> <<TextX, TextY>>, text |-> "Test Image",
                                   fill |-> "black"])]
          /\ pc' = "save"
       \/ /\ pc' = "error"
          /\ UNCHANGED img
    /\ UNCHANGED <<script, imgfile, stdout, doc0, prevDoc>>
    /\ UNCHANGED convVars

\* a save whose error is caught and passed over
OnSaveErrorIgnored == "print"

\* where the script goes when img.save raises: nothing catches it
OnSaveError == "error"

\* line 7: img.save('test-image.jpg', 'JPEG'); a failed save leaves the old
\* file, or none
Save ==
    /\ script = "create-test-image"
    /\ pc = "save"
    /\ \/ /\ imgfile' = [format |-> "JPEG", size |-> img.size]
          /\ pc' = "print"
       \/ /\ pc' = OnSaveError
          /\ imgfile' \in {imgfile, <<>>}
    /\ UNCHANGED <<script, img, stdout, doc0, prevDoc>>
    /\ UNCHANGED convVars

\* line 8: print("Test image created successfully"), and the script exits 0
PrintDone ==
    /\ script = "create-test-image"
    /\ pc = "print"
    /\ \/ /\ stdout' = Append(stdout, Message)
          /\ pc' = "exit"
       \/ /\ pc' = "error"
          /\ UNCHANGED stdout
    /\ UNCHANGED <<script, img, imgfile, doc0, prevDoc>>
    /\ UNCHANGED convVars

Next ==
    \/ Invoke
    \/ ListDir
    \/ ForNext
    \/ Extract
    \/ Open
    \/ Write
    \/ ImageNew
    \/ DrawText
    \/ Save
    \/ PrintDone

Spec == Init /\ [][Next]_vars

(***************************************************************************)
(* One run of pdf_to_md.py as a function of the directory and the order of *)
(* the listing: lines 11-16 applied to each entry in turn, up to the first *)
(* call that raises.                                                       *)
(***************************************************************************)
\* lines 12-16 for one entry: the outcome and the directory it leaves
ConvertEntry(d, name) ==
    IF ~Qualifies(name) THEN [status |-> "exit", doc |-> d]
    ELSE IF ~CanExtract(d, PdfPath(name)) THEN [status |-> "error", doc |-> d]
    ELSE IF ~CanOpenW(d, MdPath(name)) THEN [status |-> "error", doc |-> d]
    ELSE IF ~CanEncode(extract_text(d, PdfPath(name)))
         THEN [status |-> "error", doc |-> OpenW(d, MdPath(name))]
    ELSE [status |-> "exit",
          doc |-> WriteText(d, MdPath(name), extract_text(d, PdfPath(name)))]

RECURSIVE RunOver(_, _)
\* lines 11-16 over the entries of a listing
RunOver(d, entries) ==
    IF entries = <<>> THEN [status |-> "exit", doc |-> d]
    ELSE LET r == ConvertEntry(d, Head(entries))
         IN  IF r.status = "error" THEN r ELSE RunOver(r.doc, Tail(entries))

(***************************************************************************)
(* What the properties are stated with.                                    *)
(***************************************************************************)
Range(s) == {s[i] : i \in 1..Len(s)}
Last(s) == s[Len(s)]
Front(s) == SubSeq(s, 1, Len(s) - 1)

Converter == script = "pdf_to_md"
Generator == script = "create-test-image"

\* the base name X of a name X.pdf
BaseOf(name) == SubSeq(name, 1, Len(name) - Len(Str_pdf))

\* the length of the utf-8 sequence a lead byte starts
Utf8Width(b) == IF b < 128 THEN 1 ELSE IF b < 224 THEN 2 ELSE IF b < 240 THEN 3 ELSE 4

\* the code point of one utf-8 sequence
Utf8CodePoint(u) ==
    IF Len(u) = 1 THEN u[1]
    ELSE IF Len(u) = 2 THEN (u[1] - 192) * 64 + (u[2] - 128)
    ELSE IF Len(u) = 3 THEN (u[1] - 224) * 4096 + (u[2] - 128) * 64 + (u[3] - 128)
    ELSE (u[1] - 240) * 262144 + (u[2] - 128) * 4096 + (u[3] - 128) * 64 + (u[4] - 128)

RECURSIVE Utf8Decode(_)
\* a file's bytes read as utf-8 text
Utf8Decode(bytes) ==
    IF bytes = <<>> THEN <<>>
    ELSE LET w == Utf8Width(Head(bytes))
         IN  <<Utf8CodePoint(SubSeq(bytes, 1, w))>>
                 \o Utf8Decode(SubSeq(bytes, w + 1, Len(bytes)))

\* a name that ends in ".pdf" in some other casing than the lowercase one
OtherCasing(name) == EndsWith(Lower(name), Str_pdf) /\ ~EndsWith(name, Str_pdf)

\* the entry called at position i of the run was extracted, opened and written
Converted(i) ==
    /\ CanExtract(doc0, PdfPath(calls[i]))
    /\ CanOpenW(doc0, join(pdf_dir, splitext(calls[i])[1] \o Str_md))
    /\ CanEncode(doc0[calls[i]].data)
    /\ join(pdf_dir, splitext(calls[i])[1] \o Str_md) \in opened

\* the entries of a listing whose name ends in ".pdf", in the listing's order
PdfsOf(s) == SelectSeq(s, LAMBDA n : EndsWith(n, Str_pdf))

(***************************************************************************)
(* The properties.                                                         *)
(***************************************************************************)

\* C1: after a run of the converter that exits normally, every entry X.pdf
\* that "doc" held before the run has a file X.md in "doc" whose content,
\* read as utf-8, is the text extracted from X.pdf.
C1_EveryPdfHasItsMd ==
    (Converter /\ pc = "exit") =>
        \A n \in DOMAIN doc0 :
            EndsWith(n, Str_pdf) =>
                /\ BaseOf(n) \o Str_md \in DOMAIN doc
                /\ doc[BaseOf(n) \o Str_md].kind = "raw"
                /\ Utf8Decode(doc[BaseOf(n) \o Str_md].data) = doc0[n].data

\* C2: a second run of the converter, after a first that exited normally,
\* ends with the files and the contents the first run ended with.
C2_Idempotent ==
    (Converter /\ pc = "exit" /\ prevDoc # {}) => prevDoc = {doc}

\* C3: the calls of pdf_to_markdown are the entries ending in ".pdf", in the
\* order of the listing and each at most once; every call but the last one
\* succeeded; after an error the last call is the one that failed and no
\* later entry was taken; a normal exit means every entry was converted.
C3_FailFast ==
    Converter =>
        /\ Len(calls) <= Len(PdfsOf(order))
        /\ calls = SubSeq(PdfsOf(order), 1, Len(calls))
        /\ \A i \in 1..(Len(calls) - 1) : Converted(i)
        /\ pc = "error" =>
              /\ calls # <<>>
              /\ ~Converted(Len(calls))
              /\ filename = Last(calls)
              /\ \E k \in 1..Len(order) :
                    /\ order[k] = filename
                    /\ listing = SubSeq(order, k + 1, Len(order))
        /\ pc = "exit" =>
              /\ calls = PdfsOf(order)
              /\ \A i \in 1..Len(calls) : Converted(i)

\* C3's case: a call failed while an entry ending in ".pdf" was still to come
C3_Witness ==
    /\ Converter
    /\ pc = "error"
    /\ \E i \in 1..Len(listing) : EndsWith(listing[i], Str_pdf)

\* C4: no subdirectory and no file that is not a PDF is passed to the
\* extraction, and none makes the run end in an error.
C4_NonPdfSkipped ==
    Converter =>
        \A n \in DOMAIN doc0 :
            doc0[n].kind # "pdf" => (n \notin Range(calls) /\ ~(pc = "error" /\ filename = n))

\* C5: the destination of an entry X.pdf is the file X.md of "doc".
C5_DestinationIsBasePlusMd ==
    (Converter /\ pc \in {"extract", "open", "write"}) =>
        md_path = join(pdf_dir, BaseOf(filename) \o Str_md)

\* C6: an entry whose name ends in ".pdf" in another casing is never passed
\* to pdf_to_markdown, and every file opened for writing is the destination
\* of an entry whose name ends in the lowercase ".pdf".
C6_CaseSensitive ==
    Converter =>
        /\ \A n \in DOMAIN doc0 : OtherCasing(n) => n \notin Range(calls)
        /\ OtherCasing(filename) => pc \notin {"extract", "open", "write"}
        /\ \A p \in opened :
              \E n \in DOMAIN doc0 :
                  /\ EndsWith(n, Str_pdf)
                  /\ p = join(pdf_dir, splitext(n)[1] \o Str_md)

\* C6's case: a run over a directory with a ".PDF" entry converted the others
C6_Witness ==
    /\ Converter
    /\ pc = "exit"
    /\ calls # <<>>
    /\ \E n \in DOMAIN doc0 : OtherCasing(n) /\ doc0[n].kind = "pdf"

\* C7: the message is printed only once the 300x200 JPEG is saved; a run that
\* ends in an error has printed nothing; a run that exits normally has saved
\* the 300x200 JPEG and printed the message once.
C7_PrintAfterSave ==
    Generator =>
        /\ stdout # <<>> =>
              /\ imgfile = [format |-> "JPEG", size |-> <<300, 200>>]
              /\ pc = "exit"
        /\ pc = "error" => stdout = <<>>
        /\ pc = "exit" =>
              /\ imgfile = [format |-> "JPEG", size |-> <<300, 200>>]
              /\ stdout = <<"Test image created successfully">>

\* C7's case: the generator has exited normally
C7_Witness ==
    /\ Generator
    /\ pc = "exit"
    /\ stdout # <<>>

\* C8: a run that exits normally ends with the directory that a run over any
\* other order of the same listing ends with, if that run exits normally.
C8_OrderIndependent ==
    (Converter /\ pc = "exit") =>
        \A s \in Listings(doc0) :
            RunOver(doc0, s).status = "exit" => RunOver(doc0, s).doc = doc

\* C9: a run of the converter deletes nothing, creates or changes only
\* destinations of entries ending in ".pdf" (named *.md), leaves every entry
\* ending in ".pdf" as it was, opens no source for writing, leaves the image
\* file alone, and with no entry ending in ".pdf" writes nothing and does not
\* end in an error.
C9_Frame ==
    Converter =>
        /\ DOMAIN doc0 \subseteq DOMAIN doc
        /\ \A n \in DOMAIN doc :
              (n \notin DOMAIN doc0 \/ doc[n] # doc0[n]) =>
                  /\ EndsWith(n, Str_md)
                  /\ \E m \in DOMAIN doc0 :
                        EndsWith(m, Str_pdf) /\ join(pdf_dir, n) = MdPath(m)
        /\ \A n \in DOMAIN doc0 : EndsWith(n, Str_pdf) => doc[n] = doc0[n]
        /\ \A p \in opened :
              /\ DirName(p) = pdf_dir
              /\ ~EndsWith(BaseName(p), Str_pdf)
        /\ imgfile = <<>>
        /\ (\A n \in DOMAIN doc0 : ~EndsWith(n, Str_pdf)) =>
              /\ opened = {}
              /\ doc = doc0
              /\ pc # "error"

\* C9's case: a run that wrote a destination beside entries it had to leave
C9_Witness ==
    /\ Converter
    /\ pc = "exit"
    /\ opened # {}
    /\ \E n \in DOMAIN doc0 : ~EndsWith(n, Str_pdf)

\* C10: when the extraction of an entry fails, the directory is what the
\* earlier calls left: the entry's destination is neither created nor
\* truncated, and the earlier outputs are in place.
C10_ExtractBeforeOpen ==
    (Converter /\ pc = "error" /\ calls # <<>>
        /\ ~CanExtract(doc0, PdfPath(Last(calls)))) =>
            /\ RunOver(doc0, Front(calls)).status = "exit"
            /\ doc = RunOver(doc0, Front(calls)).doc
            /\ BaseName(md_path) \in DOMAIN doc0 =>
                  \/ doc[BaseName(md_path)] = doc0[BaseName(md_path)]
                  \/ \E i \in 1..(Len(calls) - 1) : MdPath(calls[i]) = md_path

\* C10's case: an extraction failed after an earlier entry was written, with
\* the failed entry's destination already in the directory
C10_Witness ==
    /\ Converter
    /\ pc = "error"
    /\ Len(calls) >= 2
    /\ ~CanExtract(doc0, PdfPath(Last(calls)))
    /\ BaseName(md_path) \in DOMAIN doc

(***************************************************************************)
(* What holds of C1, C2, C5 and C8 when no name ending in ".pdf" has only  *)
(* dots before that ending (".pdf", "..pdf"): the names for which splitext *)
(* finds no extension.                                                     *)
(***************************************************************************)
NoDotOnlyName ==
    \A n \in DOMAIN doc0 :
        EndsWith(n, Str_pdf) => \E i \in 1..Len(BaseOf(n)) : n[i] # "."

EveryPdfHasItsMd_NoDotOnlyName == NoDotOnlyName => C1_EveryPdfHasItsMd
Idempotent_NoDotOnlyName == NoDotOnlyName => C2_Idempotent
DestinationIsBasePlusMd_NoDotOnlyName == NoDotOnlyName => C5_DestinationIsBasePlusMd
OrderIndependent_NoDotOnlyName == NoDotOnlyName => C8_OrderIndependent

====
